---- MODULE Spec2Model ----
(***************************************************************************)
(* A model of mach's router middleware (lib/router.js) and of the node     *)
(* server binding (lib/index.js, bindAppToNodeServer).                     *)
(*                                                                         *)
(* Strings are sequences of tokens: "/users/42" is <<"/","users","/","42">>*)
(* so that a path template, a path and a capture are values of one kind    *)
(* and matching is computed token by token.  A JavaScript array is a       *)
(* sequence; its 0-based index i is position i+1 of the sequence.          *)
(***************************************************************************)
EXTENDS Integers, Sequences, FiniteSets, TLC

\* ------------------------------------------------------------------ bounds
\* The number of successful registrations in one behaviour.
MaxRoutes == 2
\* The number of requests the server binding receives in one behaviour.
MaxConns == 2
\* The number of requests whose handling is interleaved.
MaxRequests == 2

\* ------------------------------------------------------------- input sets
\* An app is a function object, written <<name, number>>; the argument
\* makeRouter() is called without is Undefined.
Undefined == <<"undefined", 0>>

\* Path templates given to route() as strings.
T_Id  == <<"/", "users", "/", ":id">>
T_New == <<"/", "users", "/", "new">>
T_Dup == <<"/", ":a", "/", ":a">>
T_Two == <<"/", ":x", "/", ":y">>

\* The name a ":name" token of a template carries.
ParamName == [t \in {":id", ":a", ":x", ":y", ":z"} |->
                 CASE t = ":id" -> "id" [] t = ":a" -> "a"
                   [] t = ":x" -> "x" [] t = ":y" -> "y" [] t = ":z" -> "z"]

\* A RegExp object: its elements, and whether it ends with "$".
\* R_Users is /^\/users\/([^\/]+)/ , handed to route() pre-compiled.
Lit(t) == [kind |-> "lit", tok |-> t]
Group  == [kind |-> "group", tok |-> ""]
R_Users == [type |-> "regexp",
            elems |-> <<Lit("/"), Lit("users"), Lit("/"), Group>>,
            anchoredEnd |-> FALSE]

StringPattern(t) == [type |-> "string", tokens |-> t]
\* A pattern that is neither a string nor a RegExp (a number, an object).
BadPattern == [type |-> "number"]

T_Three == <<"/", ":x", "/", ":y", "/", ":z">>
\* The templates registered where the named accessors are examined: with 0, 1,
\* 2 and 3 named segments, and with one name used twice.
AccessorTemplates == {T_New, T_Id, T_Two, T_Dup, T_Three}

\* The patterns given to route() and to the sugar registrars.
GoodPatterns  == {StringPattern(T_Id), StringPattern(T_New), R_Users}
Patterns      == GoodPatterns \cup {BadPattern}

\* request.pathInfo values.
P_42    == <<"/", "users", "/", "42">>
P_New   == <<"/", "users", "/", "new">>
P_Edit  == <<"/", "users", "/", "42", "/", "edit">>
P_About == <<"/", "about">>
Paths   == {P_42, P_New, P_Edit, P_About}

RequestMethods == {"GET", "HEAD", "POST"}

\* The handler function given to the id-th registration; the apps given to
\* run(); the constructor argument.
HandlerOf(id) == <<"handler", id>>
RunApps  == {<<"fallback", 1>>, <<"fallback", 2>>}
CtorArgs == {Undefined, <<"ctorApp", 0>>}

\* The methods argument of route(pattern, app, methods).
\* kind is typeof-like: "undefined" (omitted), "string" or "array".
MethodsArg(kind, names) == [kind |-> kind, names |-> names]
MethodArgs == {MethodsArg("undefined", <<>>), MethodsArg("string", <<"GET">>),
               MethodsArg("string", <<"post">>), MethodsArg("array", <<"POST">>)}
\* The sugar registrars exercised.
SugarVerbs == {"get", "head"}
\* The values a handler assigns to a named capture.
WriteValues == {<<"7">>}

\* ------------------------------------------------------------------ utils
\* utils.defaultApp: the well-known not-found app.
UtilsDefaultApp == <<"utils.defaultApp", 0>>

\* utils.isRegExp
IsRegExp(pattern) == pattern.type = "regexp"

\* Variant of ToUpperCase: the name is used as given.
ToUpperCaseMissing(s) == s

\* String.prototype.toUpperCase on the method names in use.
ToUpperCase(s) ==
  CASE s = "get"  -> "GET"  [] s = "post" -> "POST" [] s = "head" -> "HEAD"
    [] s = "any"  -> "ANY"  [] OTHER -> s

\* utils.compileRoute(route, keys): each ":name" token becomes a capturing
\* group matching one path segment and pushes its name on keys; every other
\* token is matched verbatim; the result is anchored at both ends.
RECURSIVE CompileElems(_, _)
CompileElems(tokens, i) ==
  IF i > Len(tokens) THEN <<>>
  ELSE <<(IF tokens[i] \in DOMAIN ParamName THEN Group ELSE Lit(tokens[i]))>>
         \o CompileElems(tokens, i + 1)

RECURSIVE CompileKeys(_, _)
CompileKeys(tokens, i) ==
  IF i > Len(tokens) THEN <<>>
  ELSE (IF tokens[i] \in DOMAIN ParamName THEN <<ParamName[tokens[i]]>> ELSE <<>>)
         \o CompileKeys(tokens, i + 1)

CompileRoute(tokens) ==
  [type |-> "regexp", elems |-> CompileElems(tokens, 1), anchoredEnd |-> TRUE]

\* RegExp.prototype.exec(path) for the RegExps above: null (NoMatch) or the
\* array <<whole match, capture 1, ..., capture n>>.  A group takes the
\* longest non-empty run of tokens other than "/".
NoMatch == <<>>

RECURSIVE RunEnd(_, _)
RunEnd(path, pos) ==
  IF pos <= Len(path) /\ path[pos] # "/" THEN RunEnd(path, pos + 1) ELSE pos

RECURSIVE ExecFrom(_, _, _, _, _)
ExecFrom(re, i, path, pos, caps) ==
  IF i > Len(re.elems)
  THEN IF re.anchoredEnd /\ pos <= Len(path) THEN NoMatch
       ELSE <<SubSeq(path, 1, pos - 1)>> \o caps
  ELSE IF re.elems[i].kind = "lit"
       THEN IF pos <= Len(path) /\ path[pos] = re.elems[i].tok
            THEN ExecFrom(re, i + 1, path, pos + 1, caps)
            ELSE NoMatch
       ELSE LET e == RunEnd(path, pos) IN
            IF e = pos THEN NoMatch
            ELSE ExecFrom(re, i + 1, path, e, Append(caps, SubSeq(path, pos, e - 1)))

Exec(re, path) == ExecFrom(re, 1, path, 1, <<>>)

\* utils.slice(match, 0): a fresh array with the same elements.
Slice(match) == [k \in 1..Len(match) |-> match[k]]

\* ------------------------------------------------------------------ state
VARIABLES
  routes,       \* routes: method name -> array of route objects (keys present only)
  defaultApp,   \* the closure variable defaultApp
  request,      \* the request object of the latest dispatch: method, pathInfo, route
  called,       \* what request.call invoked in the latest dispatch, in order
  hit,          \* identity of the route whose app the latest dispatch chose, 0 = none
  thrown,       \* the message of the Error the latest operation threw, "" = none
  op,           \* name of the latest operation
  regLog,       \* history: per route identity, the registrar and methods argument
  defaultSet,   \* history: a default was given to makeRouter or to run
  conns,        \* server binding: per received request, its promise and nodeResponse
  heap,         \* interleaved requests: the capture arrays created, by address
  inflight      \* interleaved requests: each request's method, pathInfo and route

routerVars == <<routes, defaultApp, request, called, hit, thrown, op, regLog, defaultSet>>
vars == <<routes, defaultApp, request, called, hit, thrown, op, regLog, defaultSet,
          conns, heap, inflight>>

\* ------------------------------------------------------- match result
\* JavaScript array access: index i of arr.
JsAt(arr, i) == arr[i + 1]
JsPut(arr, i, v) == [arr EXCEPT ![i + 1] = v]

\* makeAccessorsForIndex(index): the property descriptor closing over index.
MakeAccessorsForIndex(index) == [index |-> index]
\* Variant of AccessorGet: return this[index].
AccessorGetOffByOne(acc, this) == JsAt(this, acc.index)

\* its get: function () { return this[index + 1]; }
AccessorGet(acc, this) == JsAt(this, acc.index + 1)
\* its set: function (value) { this[index + 1] = value; }
AccessorSet(acc, this, value) == JsPut(this, acc.index + 1, value)

\* memo[key] = value on a plain object.
PutKey(memo, key, value) ==
  [k \in DOMAIN memo \cup {key} |-> IF k = key THEN value ELSE memo[k]]

\* keys.reduce(function (memo, key, index) {...}, {}), index 0-based.
RECURSIVE ReduceAccessors(_, _, _)
ReduceAccessors(keys, i, memo) ==
  IF i > Len(keys) THEN memo
  ELSE ReduceAccessors(keys, i + 1,
                       PutKey(memo, keys[i], MakeAccessorsForIndex(i - 1)))

EmptyObject == [k \in {} |-> 0]
Accessors(keys) == ReduceAccessors(keys, 1, EmptyObject)

\* A Match Result: the capture array with the route's accessors defined on it.
\* request.route absent is the array-less value.
MatchResult(arr, accessors) == [arr |-> arr, accessors |-> accessors]
NoRouteData == MatchResult(<<>>, EmptyObject)
\* request.route as an enclosing router may have left it.
OuterRouteData == MatchResult(<< <<"/", "outer">> >>, EmptyObject)
PriorRouteData == {NoRouteData, OuterRouteData}

\* Reading and writing a named property of a Match Result.
GetNamed(md, name) == AccessorGet(md.accessors[name], md.arr)
SetNamed(md, name, value) ==
  [md EXCEPT !.arr = AccessorSet(md.accessors[name], md.arr, value)]

\* ----------------------------------------------------------------- router
NoRequest == [method |-> "", pathInfo |-> <<>>, route |-> NoRouteData]

\* Variant of DefaultFor: the missing argument is not replaced.
DefaultForNoFallback(arg) == arg

\* defaultApp = defaultApp || utils.defaultApp
DefaultFor(arg) == IF arg = Undefined THEN UtilsDefaultApp ELSE arg

\* Variant of RunDefault: defaultApp = defaultApp || app.
RunDefaultKeepFirst(app) == IF defaultSet THEN defaultApp ELSE app

\* router.run: defaultApp = app
RunDefault(app) == app

\* routes[method] || []
Bucket(rs, method) == IF method \in DOMAIN rs THEN rs[method] ELSE <<>>

\* Variants of RoutesToTry: the wildcard bucket tried first; every bucket tried.
RoutesToTryAnyFirst(rs, method) == Bucket(rs, "ANY") \o Bucket(rs, method)
RoutesToTryEveryBucket(rs, method) ==
  Bucket(rs, "GET") \o Bucket(rs, "HEAD") \o Bucket(rs, "POST") \o Bucket(rs, "ANY")

\* (routes[method] || []).concat(routes.ANY || [])
RoutesToTry(rs, method) == Bucket(rs, method) \o Bucket(rs, "ANY")

\* request.call(app): the app is invoked with the request as it is then.
RequestCall(req, app) == [app |-> app, route |-> req.route]

\* Variant of MatchFailed: the test of the match is missing.
MatchNeverFails(match) == FALSE

\* if (!match) continue;
MatchFailed(match) == match = NoMatch

\* Variant of TryRoutes: the return at the match is missing, so the loop
\* goes on to the later routes and to the default app.
RECURSIVE TryRoutesNoReturnFrom(_, _, _, _, _, _)
TryRoutesNoReturnFrom(routesToTry, i, dflt, req, calls, chosen) ==
  IF i > Len(routesToTry)
  THEN [request |-> req, called |-> Append(calls, RequestCall(req, dflt)),
        hit |-> chosen]
  ELSE LET route == routesToTry[i]
           match == Exec(route.pattern, req.pathInfo)
       IN  IF MatchFailed(match)
           THEN TryRoutesNoReturnFrom(routesToTry, i + 1, dflt, req, calls, chosen)
           ELSE LET req1 == [req EXCEPT !.route =
                               MatchResult(Slice(match), route.accessors)]
                IN  TryRoutesNoReturnFrom(routesToTry, i + 1, dflt, req1,
                                          Append(calls, RequestCall(req1, route.app)),
                                          route.id)
TryRoutesNoReturn(routesToTry, i, dflt, req) ==
  TryRoutesNoReturnFrom(routesToTry, i, dflt, req, <<>>, 0)

\* Variant of TryRoutes: the app is called before request.route is assigned.
RECURSIVE TryRoutesCallFirst(_, _, _, _)
TryRoutesCallFirst(routesToTry, i, dflt, req) ==
  IF i > Len(routesToTry)
  THEN [request |-> req, called |-> <<RequestCall(req, dflt)>>, hit |-> 0]
  ELSE LET route == routesToTry[i]
           match == Exec(route.pattern, req.pathInfo)
       IN  IF MatchFailed(match)
           THEN TryRoutesCallFirst(routesToTry, i + 1, dflt, req)
           ELSE [request |-> [req EXCEPT !.route =
                                MatchResult(Slice(match), route.accessors)],
                 called |-> <<RequestCall(req, route.app)>>,
                 hit |-> route.id]

\* Variant of TryRoutes: request.route is reset before the default app is called.
RECURSIVE TryRoutesResetOnMiss(_, _, _, _)
TryRoutesResetOnMiss(routesToTry, i, dflt, req) ==
  IF i > Len(routesToTry)
  THEN LET req0 == [req EXCEPT !.route = NoRouteData]
       IN  [request |-> req0, called |-> <<RequestCall(req0, dflt)>>, hit |-> 0]
  ELSE LET route == routesToTry[i]
           match == Exec(route.pattern, req.pathInfo)
       IN  IF MatchFailed(match)
           THEN TryRoutesResetOnMiss(routesToTry, i + 1, dflt, req)
           ELSE LET req1 == [req EXCEPT !.route =
                               MatchResult(Slice(match), route.accessors)]
                IN  [request |-> req1,
                     called |-> <<RequestCall(req1, route.app)>>,
                     hit |-> route.id]

\* The for loop of router(request) from index i on, and the fall-through to
\* the default app: the request as left, the calls made, the route chosen.
RECURSIVE TryRoutes(_, _, _, _)
TryRoutes(routesToTry, i, dflt, req) ==
  IF i > Len(routesToTry)
  THEN [request |-> req, called |-> <<RequestCall(req, dflt)>>, hit |-> 0]
  ELSE LET route == routesToTry[i]
           match == Exec(route.pattern, req.pathInfo)
       IN  IF MatchFailed(match)
           THEN TryRoutes(routesToTry, i + 1, dflt, req)
           ELSE LET routeData == MatchResult(Slice(match), route.accessors)
                    req1 == [req EXCEPT !.route = routeData]
                IN  [request |-> req1,
                     called |-> <<RequestCall(req1, route.app)>>,
                     hit |-> route.id]

Router(rs, dflt, req) == TryRoutes(RoutesToTry(rs, req.method), 1, dflt, req)

\* ----------------------------------------------------------- registration
\* typeof methods === 'string' ? [methods] : methods || ['ANY']
NormalizeMethods(methods) ==
  IF methods.kind = "string" THEN methods.names
  ELSE IF methods.kind = "undefined" THEN <<"ANY">> ELSE methods.names

\* Variant of CompiledPattern: a RegExp is rebuilt with a "$" at its end.
CompiledPatternAnchoring(pattern) ==
  IF pattern.type = "string" THEN CompileRoute(pattern.tokens)
  ELSE IF pattern.type = "regexp" THEN [pattern EXCEPT !.anchoredEnd = TRUE]
  ELSE pattern

\* if (typeof pattern === 'string') pattern = utils.compileRoute(pattern, keys)
CompiledPattern(pattern) ==
  IF pattern.type = "string" THEN CompileRoute(pattern.tokens) ELSE pattern
KeysOf(pattern) ==
  IF pattern.type = "string" THEN CompileKeys(pattern.tokens, 1) ELSE <<>>

\* { pattern: pattern, app: app, accessors: ... }; id is the object's identity.
MakeRoute(id, pattern, app) ==
  [id |-> id, pattern |-> CompiledPattern(pattern), app |-> app,
   accessors |-> Accessors(KeysOf(pattern))]

\* Variant of PushRoute: unshift in place of push.
PushRouteFront(rs, method, route) ==
  IF method \in DOMAIN rs
  THEN [rs EXCEPT ![method] = <<route>> \o rs[method]]
  ELSE [m \in DOMAIN rs \cup {method} |-> IF m = method THEN <<route>> ELSE rs[m]]

\* Variant of PushRoute: a pattern already in the bucket is not added again.
PushRouteDedup(rs, method, route) ==
  IF method \in DOMAIN rs
  THEN IF \E i \in 1..Len(rs[method]) : rs[method][i].pattern = route.pattern
       THEN rs
       ELSE [rs EXCEPT ![method] = Append(rs[method], route)]
  ELSE [m \in DOMAIN rs \cup {method} |-> IF m = method THEN <<route>> ELSE rs[m]]

\* One step of methods.forEach: push on the bucket, or create it.
PushRoute(rs, method, route) ==
  IF method \in DOMAIN rs
  THEN [rs EXCEPT ![method] = Append(rs[method], route)]
  ELSE [m \in DOMAIN rs \cup {method} |-> IF m = method THEN <<route>> ELSE rs[m]]

RECURSIVE ForEachMethod(_, _, _, _)
ForEachMethod(rs, methods, i, route) ==
  IF i > Len(methods) THEN rs
  ELSE ForEachMethod(PushRoute(rs, ToUpperCase(methods[i]), route),
                     methods, i + 1, route)

PatternError == "Pattern must be a RegExp"

\* Variant of RouteCall: the isRegExp test comes after methods.forEach.
RouteCallLateCheck(rs, id, pattern, app, methods) ==
  [thrown |-> IF IsRegExp(CompiledPattern(pattern)) THEN "" ELSE PatternError,
   routes |-> ForEachMethod(rs, NormalizeMethods(methods), 1,
                            MakeRoute(id, pattern, app))]

\* The body of router.route: the error thrown ("" = none) and the table after.
RouteCall(rs, id, pattern, app, methods) ==
  IF ~IsRegExp(CompiledPattern(pattern))
  THEN [thrown |-> PatternError, routes |-> rs]
  ELSE [thrown |-> "",
        routes |-> ForEachMethod(rs, NormalizeMethods(methods), 1,
                                 MakeRoute(id, pattern, app))]

\* Variant of MethodVerbs: get: 'GET'.
MethodVerbsGetOnly ==
  [verb \in {"get", "post", "put", "delete", "head", "options"} |->
     CASE verb = "get"     -> MethodsArg("string", <<"GET">>)
       [] verb = "post"    -> MethodsArg("string", <<"POST">>)
       [] verb = "put"     -> MethodsArg("string", <<"PUT">>)
       [] verb = "delete"  -> MethodsArg("string", <<"DELETE">>)
       [] verb = "head"    -> MethodsArg("string", <<"HEAD">>)
       [] verb = "options" -> MethodsArg("string", <<"OPTIONS">>)]

\* var methodVerbs = {...}
MethodVerbs ==
  [verb \in {"get", "post", "put", "delete", "head", "options"} |->
     CASE verb = "get"     -> MethodsArg("array", <<"GET", "HEAD">>)
       [] verb = "post"    -> MethodsArg("string", <<"POST">>)
       [] verb = "put"     -> MethodsArg("string", <<"PUT">>)
       [] verb = "delete"  -> MethodsArg("string", <<"DELETE">>)
       [] verb = "head"    -> MethodsArg("string", <<"HEAD">>)
       [] verb = "options" -> MethodsArg("string", <<"OPTIONS">>)]

Op(name, arg) == [name |-> name, arg |-> arg]

\* ---------------------------------------------------------------- actions
Init ==
  /\ routes = [m \in {} |-> <<>>]
  /\ \E arg \in CtorArgs :
       /\ defaultApp = DefaultFor(arg)
       /\ defaultSet = (arg # Undefined)
  /\ request = NoRequest
  /\ called = <<>>
  /\ hit = 0
  /\ thrown = ""
  /\ op = Op("makeRouter", "")
  /\ regLog = <<>>
  /\ conns = <<>>
  /\ heap = <<>>
  /\ inflight = <<>>

\* The router and the handlers are synchronous: a call of route, run or the
\* router itself starts only when no dispatch is running.
Idle == request = NoRequest

\* router.route(pattern, app, methods), called as via (route or a sugar verb).
\* Every registration passes a handler function of its own.
Register(via, pattern, methods) ==
  /\ Len(regLog) < MaxRoutes
  /\ LET id == Len(regLog) + 1
         r  == RouteCall(routes, id, pattern, HandlerOf(id), methods) IN
       /\ routes' = r.routes
       /\ thrown' = r.thrown
       /\ regLog' = IF r.thrown = ""
                    THEN Append(regLog, [via |-> via, pattern |-> pattern,
                                         methods |-> methods])
                    ELSE regLog
  /\ op' = Op(via, pattern.type)
  /\ UNCHANGED <<defaultApp, request, called, hit, defaultSet, conns, heap, inflight>>

Route ==
  \E pattern \in Patterns, methods \in MethodArgs :
    /\ Idle
    /\ Register("route", pattern, methods)

\* router[verb] = function (pattern, app) { return router.route(pattern, app, verbs); }
Sugar ==
  \E verb \in SugarVerbs, pattern \in Patterns :
    /\ Idle
    /\ Register(verb, pattern, MethodVerbs[verb])

\* router.run(app)
Run ==
  \E app \in RunApps :
    /\ Idle
    /\ defaultApp' = RunDefault(app)
    /\ defaultSet' = TRUE
    /\ thrown' = ""
    /\ op' = Op("run", app)
    /\ UNCHANGED <<routes, request, called, hit, regLog, conns, heap, inflight>>

\* Variant of Dispatch: routesToTry is the method's own bucket, and the
\* wildcard routes are pushed on it in place.
DispatchConcatInPlace ==
  \E method \in RequestMethods, path \in Paths, prior \in PriorRouteData :
    /\ Idle
    /\ LET r == Router(routes, defaultApp,
                       [method |-> method, pathInfo |-> path, route |-> prior]) IN
         /\ request' = r.request
         /\ called' = r.called
         /\ hit' = r.hit
    /\ routes' = IF method \in DOMAIN routes
                 THEN [routes EXCEPT ![method] = @ \o Bucket(routes, "ANY")]
                 ELSE routes
    /\ thrown' = ""
    /\ op' = Op("dispatch", prior)
    /\ UNCHANGED <<defaultApp, regLog, defaultSet, conns, heap, inflight>>

\* router(request) for a request with the given method and pathInfo, whose
\* route field is as upstream left it.
Dispatch ==
  \E method \in RequestMethods, path \in Paths, prior \in PriorRouteData :
    /\ Idle
    /\ LET r == Router(routes, defaultApp,
                       [method |-> method, pathInfo |-> path, route |-> prior]) IN
         /\ request' = r.request
         /\ called' = r.called
         /\ hit' = r.hit
    /\ thrown' = ""
    /\ op' = Op("dispatch", prior)
    /\ UNCHANGED <<routes, defaultApp, regLog, defaultSet, conns, heap, inflight>>

\* The invoked app assigns request.route.<name> = value.
WriteNamed ==
  \E name \in DOMAIN request.route.accessors, value \in WriteValues :
    /\ hit # 0
    /\ request' = [request EXCEPT !.route = SetNamed(request.route, name, value)]
    /\ thrown' = ""
    /\ op' = Op("write", name)
    /\ UNCHANGED <<routes, defaultApp, called, hit, regLog, defaultSet, conns, heap, inflight>>

\* The dispatch is over: the response is delivered and the request dropped.
Complete ==
  /\ ~Idle
  /\ request' = NoRequest
  /\ called' = <<>>
  /\ hit' = 0
  /\ thrown' = ""
  /\ op' = Op("complete", "")
  /\ UNCHANGED <<routes, defaultApp, regLog, defaultSet, conns, heap, inflight>>

\* router.route(template, app): one of the templates with named segments.
RouteTemplate ==
  \E t \in AccessorTemplates :
    /\ Idle
    /\ Register("route", StringPattern(t), MethodsArg("undefined", <<>>))

\* ---------------------------------------------------------- server binding
\* utils.statusHasContent(status)
StatusHasContent(status) == status \notin {100, 101, 204, 304}

\* What the app's promise resolves to: status, the Content-Length header,
\* the content (a stream of that many bytes) and whether it has a destroy().
AppResponse(status, length, destroyable) ==
  [status |-> status, headers |-> [h \in {"Content-Length"} |-> length],
   content |-> length, destroyable |-> destroyable]
Statuses       == {200, 204, 304}
ContentLengths == {0, 5}
AppResponses ==
  {AppResponse(st, n, d) : st \in Statuses, n \in ContentLengths, d \in BOOLEAN}
NoResponse == AppResponse(0, 0, FALSE)

\* A nodeResponse: the writeHead calls, the bytes written to it by end(data)
\* or by a pipe, whether end() was called without data, whether the content
\* was piped into it; and the content stream's destroy() having been called.
FreshNodeResponse ==
  [heads |-> <<>>, body |-> 0, ended |-> FALSE, piped |-> FALSE, destroyed |-> FALSE]

ServerErrorBody == 21   \* 'Internal Server Error'.length

\* Variant of IsEmpty: the HEAD test is missing.
IsEmptyStatusOnly(method, status) == ~StatusHasContent(status)

\* var isHead = request.method === 'HEAD';
IsHead(method) == method = "HEAD"
\* var isEmpty = isHead || !utils.statusHasContent(response.status);
IsEmpty(method, status) == IsHead(method) \/ ~StatusHasContent(status)

\* Variant of HeadersToWrite: if (isEmpty) response.headers['Content-Length'] = 0.
HeadersToWriteZeroWhenEmpty(method, response) ==
  IF IsEmpty(method, response.status)
  THEN [response.headers EXCEPT !["Content-Length"] = 0]
  ELSE response.headers

\* if (isEmpty && !isHead) response.headers['Content-Length'] = 0;
HeadersToWrite(method, response) ==
  IF IsEmpty(method, response.status) /\ ~IsHead(method)
  THEN [response.headers EXCEPT !["Content-Length"] = 0]
  ELSE response.headers

\* The fulfilment callback of request.call(app).then(...).
OnResponse(out, method, response) ==
  LET headed == [out EXCEPT !.heads =
                   Append(@, [status |-> response.status,
                              headers |-> HeadersToWrite(method, response)])]
  IN  IF IsEmpty(method, response.status)
      THEN [headed EXCEPT !.ended = TRUE, !.destroyed = response.destroyable]
      ELSE [headed EXCEPT !.piped = TRUE, !.body = @ + response.content, !.ended = TRUE]

\* Variant of OnError: the writeHead(500, ...) call is missing.
OnErrorWithoutHead(out) ==
  [out EXCEPT !.body = @ + ServerErrorBody, !.ended = TRUE]

\* The rejection callback: writeHead(500, ...); end('Internal Server Error').
OnError(out) ==
  [out EXCEPT !.heads = Append(@, [status |-> 500,
                                   headers |-> [h \in {"Content-Type"} |-> 0]]),
              !.body = @ + ServerErrorBody, !.ended = TRUE]

\* nodeServer.on('request', ...): makeRequest and request.call(app).
Receive ==
  \E method \in RequestMethods :
    /\ Len(conns) < MaxConns
    /\ conns' = Append(conns, [stage |-> "pending", method |-> method,
                               response |-> NoResponse, out |-> FreshNodeResponse])
    /\ UNCHANGED <<routerVars, heap, inflight>>

\* The app's promise is fulfilled with a response.
Respond ==
  \E c \in DOMAIN conns, response \in AppResponses :
    /\ conns[c].stage = "pending"
    /\ conns' = [conns EXCEPT ![c] =
                   [@ EXCEPT !.stage = "responded", !.response = response,
                             !.out = OnResponse(@, conns[c].method, response)]]
    /\ UNCHANGED <<routerVars, heap, inflight>>

\* The app threw or its promise is rejected.
Fail ==
  \E c \in DOMAIN conns :
    /\ conns[c].stage = "pending"
    /\ conns' = [conns EXCEPT ![c] =
                   [@ EXCEPT !.stage = "failed", !.out = OnError(@)]]
    /\ UNCHANGED <<routerVars, heap, inflight>>

NextBind == Receive \/ Respond \/ Fail
SpecBind == Init /\ [][NextBind]_vars

\* ------------------------------------------------------ interleaved requests
\* Requests whose apps are still at work while the router serves the next
\* one.  A Match Result is an array on the heap; request.route refers to it.
IsolationTemplates == {T_Id, T_Two}
IsolationPaths     == {P_42, P_About}

\* Variant of NewArrayAddress: the route keeps one array and hands it to
\* every request it matches.
NewArrayAddressPerRoute(hp, id) ==
  IF \E i \in 1..Len(inflight) : inflight[i].hit = id
  THEN inflight[CHOOSE i \in 1..Len(inflight) : inflight[i].hit = id].addr
  ELSE Len(hp) + 1

\* utils.slice(match, 0): the array is a new object on every match.
NewArrayAddress(hp, id) == Len(hp) + 1

\* heap[addr] = arr, for a new or an existing address.
Store(hp, addr, arr) ==
  IF addr \in 1..Len(hp) THEN [hp EXCEPT ![addr] = arr] ELSE Append(hp, arr)

\* router.route(template, app) before and between the requests.
RouteShared ==
  \E t \in IsolationTemplates :
    /\ Idle
    /\ Register("route", StringPattern(t), MethodsArg("undefined", <<>>))

\* router(request) while earlier requests are still being handled.
DispatchInterleaved ==
  \E path \in IsolationPaths :
    /\ Len(inflight) < MaxRequests
    /\ LET r == Router(routes, defaultApp,
                       [method |-> "GET", pathInfo |-> path, route |-> NoRouteData])
           addr == IF r.hit = 0 THEN 0 ELSE NewArrayAddress(heap, r.hit) IN
         /\ heap' = IF r.hit = 0 THEN heap ELSE Store(heap, addr, r.request.route.arr)
         /\ inflight' = Append(inflight,
                               [pathInfo |-> path, hit |-> r.hit, addr |-> addr,
                                accessors |-> r.request.route.accessors])
    /\ op' = Op("dispatch", Len(inflight) + 1)
    /\ UNCHANGED <<routes, defaultApp, request, called, hit, thrown, regLog,
                   defaultSet, conns>>

\* The app handling request i assigns request.route.<name> = value.
WriteNamedOf ==
  \E i \in 1..Len(inflight), value \in WriteValues :
    \E name \in DOMAIN inflight[i].accessors :
      /\ inflight[i].hit # 0
      /\ heap' = [heap EXCEPT ![inflight[i].addr] =
                    AccessorSet(inflight[i].accessors[name], @, value)]
      /\ op' = Op("write", i)
      /\ UNCHANGED <<routes, defaultApp, request, called, hit, thrown, regLog,
                     defaultSet, conns, inflight>>

\* The app handling request i assigns request.route[k] = value.
WriteIndexOf ==
  \E i \in 1..Len(inflight), value \in WriteValues :
    /\ inflight[i].hit # 0
    /\ \E k \in 0..(Len(heap[inflight[i].addr]) - 1) :
         heap' = [heap EXCEPT ![inflight[i].addr] = JsPut(@, k, value)]
    /\ op' = Op("write", i)
    /\ UNCHANGED <<routes, defaultApp, request, called, hit, thrown, regLog,
                   defaultSet, conns, inflight>>

NextInterleaved == RouteShared \/ DispatchInterleaved \/ WriteNamedOf \/ WriteIndexOf
SpecInterleaved == Init /\ [][NextInterleaved]_vars

\* Registration of templates, dispatch and writes through the accessors.
NextAccessors == RouteTemplate \/ Dispatch \/ WriteNamed \/ Complete
SpecAccessors == Init /\ [][NextAccessors]_vars

Next == Route \/ Sugar \/ Run \/ Dispatch \/ WriteNamed \/ Complete

Spec == Init /\ [][Next]_vars

\* ------------------------------------------------------------- properties
\* A dispatch has run and its request is still at hand.
InFlight == request # NoRequest

Matches(route, path) == Exec(route.pattern, path) # NoMatch
Ids(bucket) == {bucket[i].id : i \in 1..Len(bucket)}
MatchingIds(bucket, path) ==
  {bucket[i].id : i \in {j \in 1..Len(bucket) : Matches(bucket[j], path)}}
MinOf(S) == CHOOSE x \in S : \A y \in S : x <= y
CalledApp == called[1].app

\* The upper-cased method set a registration named.
RECURSIVE UpperSet(_, _)
UpperSet(names, i) ==
  IF i > Len(names) THEN {} ELSE {ToUpperCase(names[i])} \cup UpperSet(names, i + 1)
MethodSet(id) == UpperSet(NormalizeMethods(regLog[id].methods), 1)

\* C1: registration-order precedence.  When two routes registered for the
\* request's method both match request.pathInfo, the dispatch invokes the app
\* of the earliest-registered matching route of that method and never the app
\* of a later-registered one, whatever the specificity of the patterns.
C1_RegistrationOrder ==
  InFlight =>
    LET M == MatchingIds(Bucket(routes, request.method), request.pathInfo) IN
      /\ M # {} => hit = MinOf(M) /\ CalledApp = HandlerOf(MinOf(M)) /\ Len(called) = 1
      /\ \A r1 \in M, r2 \in M : r1 < r2 => hit # r2 /\ CalledApp # HandlerOf(r2)

\* C1 witness: /users/:id registered before the literal /users/new for the same
\* method, a request for /users/new dispatched to the earlier, less specific one.
C1_Witness ==
  /\ InFlight /\ request.pathInfo = P_New
  /\ \E r1, r2 \in Ids(Bucket(routes, request.method)) :
       /\ r1 < r2
       /\ regLog[r1].pattern = StringPattern(T_Id)
       /\ regLog[r2].pattern = StringPattern(T_New)
       /\ hit = r1 /\ CalledApp = HandlerOf(r1)

C3_MethodIsolation ==
  InFlight =>
    /\ Len(called) = 1
    /\ \/ hit = 0 /\ CalledApp = defaultApp
       \/ /\ hit \in 1..Len(regLog)
          /\ CalledApp = HandlerOf(hit)
          /\ (request.method \in MethodSet(hit) \/ "ANY" \in MethodSet(hit))
    /\ \A id \in 1..Len(regLog) :
         (request.method = "GET" /\ MethodSet(id) = {"POST"}) =>
            hit # id /\ CalledApp # HandlerOf(id)

\* C3 witness: a route registered only under POST matches the path of a GET
\* request, which goes elsewhere.
C3_Witness ==
  /\ InFlight /\ request.method = "GET"
  /\ \E id \in 1..Len(regLog) :
       /\ MethodSet(id) = {"POST"}
       /\ id \in MatchingIds(Bucket(routes, "POST"), request.pathInfo)
       /\ hit # id

\* The routes a dispatch of the current request tries, and the registered
\* pattern of a route identity matching a path.
Tried == RoutesToTry(routes, request.method)
PatternMatches(id, path) == Exec(CompiledPattern(regLog[id].pattern), path) # NoMatch
PositionOf(bucket, id) == MinOf({i \in 1..Len(bucket) : bucket[i].id = id})
EarlierMatch(bucket, id, path) ==
  \E i \in 1..(PositionOf(bucket, id) - 1) : Matches(bucket[i], path)

\* C4 as stated: every route registered for GET, through the get registrar or
\* through route(pattern, app, 'GET'), gets the HEAD requests whose path it
\* matches when no other tried route matches the path.
C4_GetReachableByHead_Original ==
  (InFlight /\ request.method = "HEAD") =>
    \A id \in 1..Len(regLog) :
      ( /\ "GET" \in MethodSet(id)
        /\ PatternMatches(id, request.pathInfo)
        /\ MatchingIds(Tried, request.pathInfo) \ {id} = {} )
      => hit = id /\ CalledApp = HandlerOf(id)

\* C4 amended: a route registered through the get registrar is in the GET and
\* the HEAD bucket, and a HEAD request whose pathInfo matches its pattern is
\* dispatched to its app provided no earlier-tried route matches; a route
\* registered with route(pattern, app, 'GET') is in the GET bucket only and no
\* HEAD request is dispatched to it.
C4_GetReachableByHead ==
  /\ \A id \in 1..Len(regLog) :
       regLog[id].via = "get" =>
         id \in Ids(Bucket(routes, "GET")) /\ id \in Ids(Bucket(routes, "HEAD"))
  /\ (InFlight /\ request.method = "HEAD") =>
       \A id \in 1..Len(regLog) :
         /\ ( /\ regLog[id].via = "get"
              /\ PatternMatches(id, request.pathInfo)
              /\ ~EarlierMatch(Tried, id, request.pathInfo) )
            => hit = id /\ CalledApp = HandlerOf(id)
         /\ (regLog[id].via = "route" /\ MethodSet(id) = {"GET"}) =>
              hit # id /\ CalledApp # HandlerOf(id)

\* C4 witness: a HEAD request dispatched to a route the get registrar added
\* second, after a route of another bucket that matches the same path.
C4_Witness ==
  /\ InFlight /\ request.method = "HEAD"
  /\ hit = 2 /\ regLog[2].via = "get" /\ CalledApp = HandlerOf(2)
  /\ PatternMatches(1, request.pathInfo)

\* C5: a match-miss goes to the default.  Every dispatch invokes exactly one
\* app and throws nothing; when no tried route matches (also when the method
\* has no bucket) the default app is invoked, and it is utils.defaultApp when
\* no default was ever set.
C5_MissGoesToDefault ==
  InFlight =>
    /\ Len(called) = 1 /\ thrown = ""
    /\ MatchingIds(Tried, request.pathInfo) = {} =>
         /\ hit = 0
         /\ CalledApp = defaultApp
         /\ ~defaultSet => CalledApp = UtilsDefaultApp

\* C5 witness: routes exist, but the request's method has no bucket and there
\* is no wildcard bucket; no default was set; the not-found app is invoked.
C5_Witness ==
  /\ InFlight /\ routes # <<>>
  /\ request.method \notin DOMAIN routes /\ "ANY" \notin DOMAIN routes
  /\ ~defaultSet /\ CalledApp = UtilsDefaultApp

\* What a dispatch of (method, path) would choose in a given configuration.
Choice(rs, dflt, method, path) ==
  LET r == Router(rs, dflt, [method |-> method, pathInfo |-> path, route |-> NoRouteData])
  IN  <<r.hit, r.called[1].app>>

\* C6: run(app) sets the default and nothing else: it leaves every bucket as
\* it was, so a request that matches a route is dispatched as before; no other
\* operation changes the default; and a dispatch that matches no route invokes
\* the current default, the app of the most recent run.
C6_RunReplacesDefault ==
  [][ /\ op'.name = "run" =>
           /\ defaultApp' = op'.arg
           /\ routes' = routes
           /\ \A m \in RequestMethods, p \in Paths :
                Choice(routes, defaultApp, m, p)[1] # 0 =>
                  Choice(routes', defaultApp', m, p) = Choice(routes, defaultApp, m, p)
      /\ op'.name # "run" => defaultApp' = defaultApp
      /\ (op'.name = "dispatch" /\ hit' = 0) => called'[1].app = defaultApp
    ]_vars

\* C6 witness: with routes registered, a request that matches none of them is
\* dispatched to an app given to run.
C6_Witness ==
  /\ InFlight /\ hit = 0 /\ routes # <<>>
  /\ CalledApp \in RunApps /\ CalledApp = defaultApp

Registrars == {"route"} \cup DOMAIN MethodVerbs
StoredRoutes == UNION {{routes[m][i] : i \in 1..Len(routes[m])} : m \in DOMAIN routes}

\* C8: a pattern that is neither a string nor a RegExp makes route (and the
\* registrars calling it) throw at once; a call that throws leaves every
\* bucket and the default app unchanged; no stored route ever holds anything
\* but a RegExp, so the error cannot come up at request time.
C8_BadPatternThrows ==
  [][ /\ (op'.name \in Registrars /\ op'.arg \notin {"string", "regexp"}) =>
           thrown' = PatternError
      /\ thrown' # "" => routes' = routes /\ defaultApp' = defaultApp
      /\ \A r \in StoredRoutes' : IsRegExp(r.pattern)
    ]_vars

\* C8 witness: route threw on a configured router.
C8_Witness ==
  /\ thrown = PatternError /\ op.name = "route" /\ routes # <<>>

\* C9: with the single route GET /users/:id, GET /users/42 is dispatched to
\* the handler, which sees request.route.id = "42", and GET /users/42/edit is
\* dispatched to the default app.
C9_SegmentBounded ==
  ( /\ InFlight /\ request.method = "GET"
    /\ Len(regLog) = 1 /\ regLog[1].pattern = StringPattern(T_Id)
    /\ "GET" \in MethodSet(1) ) =>
    /\ request.pathInfo = P_42 =>
         /\ hit = 1 /\ CalledApp = HandlerOf(1)
         /\ GetNamed(called[1].route, "id") = <<"42">>
    /\ request.pathInfo = P_Edit => hit = 0 /\ CalledApp = defaultApp

\* C9 witness: the request for /users/42/edit went to the default app.
C9_Witness ==
  /\ InFlight /\ request.method = "GET" /\ request.pathInfo = P_Edit
  /\ Len(regLog) = 1 /\ regLog[1].pattern = StringPattern(T_Id)
  /\ "GET" \in MethodSet(1) /\ hit = 0 /\ CalledApp = defaultApp

\* The named segments of a template, counted on the template itself.
ParamPositions(tokens) == {i \in 1..Len(tokens) : tokens[i] \in DOMAIN ParamName}
NamedCount(tokens) == Cardinality(ParamPositions(tokens))
KthName(tokens, k) ==
  LET i == CHOOSE j \in ParamPositions(tokens) :
             Cardinality({x \in ParamPositions(tokens) : x <= j}) = k
  IN  ParamName[tokens[i]]
\* The last position, in template order, at which a name occurs.
LastIndexOf(tokens, name) ==
  CHOOSE k \in 1..NamedCount(tokens) :
    /\ KthName(tokens, k) = name
    /\ \A j \in 1..NamedCount(tokens) : KthName(tokens, j) = name => j <= k
HitTemplate == regLog[hit].pattern.tokens

C10_NoBodyWhenEmpty ==
  \A c \in DOMAIN conns :
    conns[c].stage = "responded" =>
      LET bodyless == conns[c].method = "HEAD" \/ conns[c].response.status \in {204, 304}
          out == conns[c].out IN
        /\ bodyless => out.ended /\ out.body = 0 /\ ~out.piped
        /\ out.piped <=> ~bodyless
        /\ ~bodyless => out.body = conns[c].response.content

\* C10 witness: a HEAD request whose handler answered 200 with five bytes of
\* content, ended with nothing written.
C10_Witness ==
  \E c \in DOMAIN conns :
    /\ conns[c].stage = "responded" /\ conns[c].method = "HEAD"
    /\ conns[c].response.status = 200 /\ conns[c].response.content = 5
    /\ conns[c].out.ended /\ conns[c].out.body = 0 /\ ~conns[c].out.piped

\* The Content-Length header given to nodeResponse.writeHead for a request.
WrittenLength(c) == conns[c].out.heads[1].headers["Content-Length"]
Bodyless(c) == conns[c].method = "HEAD" \/ conns[c].response.status \in {204, 304}

\* C11 as stated: for HEAD, 204 and 304 alike the Content-Length written to
\* the client is the one the app's response carried.
C11_ContentLengthKept_Original ==
  \A c \in DOMAIN conns :
    (conns[c].stage = "responded" /\ Bodyless(c)) =>
      WrittenLength(c) = conns[c].response.headers["Content-Length"]

\* C11 amended: on a HEAD request the Content-Length written to the client is
\* the one the app's response carried, whatever the status; on a request of
\* another method whose status carries no content (204, 304) the server
\* binding overwrites it and writes Content-Length 0; on a content-bearing
\* response it is written as the app gave it.
C11_ContentLengthKept ==
  \A c \in DOMAIN conns :
    conns[c].stage = "responded" =>
      /\ Len(conns[c].out.heads) = 1
      /\ conns[c].out.heads[1].status = conns[c].response.status
      /\ (conns[c].method = "HEAD" \/ ~Bodyless(c)) =>
           WrittenLength(c) = conns[c].response.headers["Content-Length"]
      /\ (conns[c].method # "HEAD" /\ Bodyless(c)) => WrittenLength(c) = 0

\* C11 witness: a HEAD request answered 304 with Content-Length 5, written
\* to the client with Content-Length 5 and no body.
C11_Witness ==
  \E c \in DOMAIN conns :
    /\ conns[c].stage = "responded" /\ conns[c].method = "HEAD"
    /\ conns[c].response.status = 304
    /\ conns[c].response.headers["Content-Length"] = 5
    /\ WrittenLength(c) = 5 /\ conns[c].out.body = 0

Settled(c) == conns[c].stage \in {"responded", "failed"}

\* C12: a handler failure is handled once at the outer boundary.  A request
\* whose app threw or whose promise was rejected gets status 500 and the body
\* 'Internal Server Error'; every settled request has exactly one response
\* head, the app's or the 500, and a pending one has none; a step settles one
\* request and leaves every other request, in flight or settled, as it was.
C12_FailureHandledOnce ==
  [][ /\ \A c \in DOMAIN conns' :
           LET out == conns'[c].out IN
             /\ conns'[c].stage = "pending" => out = FreshNodeResponse
             /\ conns'[c].stage = "failed" =>
                  /\ Len(out.heads) = 1 /\ out.heads[1].status = 500
                  /\ out.body = ServerErrorBody /\ out.ended /\ ~out.piped
             /\ conns'[c].stage = "responded" =>
                  /\ Len(out.heads) = 1
                  /\ out.heads[1].status = conns'[c].response.status
                  /\ out.ended
      /\ \A c \in DOMAIN conns :
           /\ Settled(c) => conns'[c] = conns[c]
           /\ conns'[c] # conns[c] =>
                \A d \in DOMAIN conns \ {c} : conns'[d] = conns[d]
    ]_vars

\* C12 witness: of two requests in flight the first failed and got the 500;
\* the second was answered by its app afterwards.
C12_Witness ==
  /\ Len(conns) = 2
  /\ conns[1].stage = "failed" /\ conns[1].out.heads[1].status = 500
  /\ conns[1].out.body = ServerErrorBody
  /\ conns[2].stage = "responded" /\ conns[2].out.heads[1].status = 200
  /\ conns[2].out.piped

\* The bucket names a methods argument stands for, written out: omitted is
\* the wildcard, and a name in lower case is its upper-case name.
UpperName(n) == IF n = "post" THEN "POST" ELSE n
NamedBuckets(methods) ==
  IF methods.kind = "undefined" THEN {"ANY"}
  ELSE {UpperName(methods.names[i]) : i \in 1..Len(methods.names)}
\* A step that registered a route.
Registered == Len(regLog') = Len(regLog) + 1
LastOf(seq) == seq[Len(seq)]

\* C13: method normalisation.  A registration adds the new route to the
\* bucket of each upper-cased name of its methods argument and to no other
\* bucket; with methods omitted that is the wildcard bucket alone, and the
\* route is then tried for requests of every method; route(p, app, 'post')
\* and route(p, app, ['POST']) lead to the same table.
C13_MethodNormalisation ==
  [][ /\ Registered =>
           LET id    == Len(regLog')
               named == NamedBuckets(regLog'[id].methods) IN
             /\ DOMAIN routes' = DOMAIN routes \cup named
             /\ \A m \in DOMAIN routes' :
                  IF m \in named
                  THEN /\ Len(routes'[m]) = Len(Bucket(routes, m)) + 1
                       /\ LastOf(routes'[m]).id = id
                  ELSE routes'[m] = routes[m]
             /\ regLog'[id].methods.kind = "undefined" =>
                  \A method \in RequestMethods : id \in Ids(RoutesToTry(routes', method))
      /\ \A p \in GoodPatterns :
           RouteCall(routes', 1, p, HandlerOf(1), MethodsArg("string", <<"post">>)).routes
             = RouteCall(routes', 1, p, HandlerOf(1), MethodsArg("array", <<"POST">>)).routes
    ]_vars

\* C13 witness: route(p, app, 'post') put the route in the POST bucket of a
\* table that already held a wildcard route; there is no bucket named post.
C13_Witness ==
  /\ op.name = "route" /\ thrown = "" /\ Len(regLog) = 2
  /\ regLog[1].methods.kind = "undefined" /\ 1 \in Ids(Bucket(routes, "ANY"))
  /\ regLog[2].methods = MethodsArg("string", <<"post">>)
  /\ DOMAIN routes = {"ANY", "POST"} /\ Ids(routes["POST"]) = {2}

IdsInOrder(bucket) == [i \in 1..Len(bucket) |-> bucket[i].id]
RECURSIVE Ascending(_, _, _)
\* The members of S from lo to hi, in ascending order.
Ascending(S, lo, hi) ==
  IF lo > hi THEN <<>>
  ELSE (IF lo \in S THEN <<lo>> ELSE <<>>) \o Ascending(S, lo + 1, hi)

\* C14: the route table is append-only.  Every bucket lists, in registration
\* order and once each, the routes registered under its name; a step leaves
\* the entries a bucket had at the front of it, in the same order; a bucket
\* changes only in a successful registration, by one entry appended at its
\* end; a pattern registered twice is listed twice.
C14_AppendOnly ==
  [][ /\ \A m \in DOMAIN routes' :
           IdsInOrder(routes'[m]) =
             Ascending({id \in 1..Len(regLog') : m \in MethodSet(id)'}, 1, Len(regLog'))
      /\ \A m \in DOMAIN routes :
           /\ m \in DOMAIN routes'
           /\ Len(routes'[m]) \in {Len(routes[m]), Len(routes[m]) + 1}
           /\ SubSeq(routes'[m], 1, Len(routes[m])) = routes[m]
      /\ routes' # routes => Registered
    ]_vars

\* C14 witness: the same pattern registered twice for one method, two entries.
C14_Witness ==
  \E m \in DOMAIN routes :
    /\ Len(routes[m]) = 2
    /\ routes[m][1].pattern = routes[m][2].pattern
    /\ routes[m][1].id = 1 /\ routes[m][2].id = 2

CalledApps == {called[i].app : i \in 1..Len(called)}

\* C17: each dispatch invokes exactly one app.  However many tried routes
\* match the path, request.call is made once: with the app of the chosen
\* route and no other route's app, or with the default app when no route was
\* chosen, never both.
C17_ExactlyOneApp ==
  InFlight =>
    /\ Len(called) = 1
    /\ Cardinality(CalledApps) = 1
    /\ defaultApp \in CalledApps <=> hit = 0
    /\ \A id \in 1..Len(regLog) : HandlerOf(id) \in CalledApps <=> id = hit

\* C17 witness: two tried routes match the path; the first one's app alone
\* was called.
C17_Witness ==
  /\ InFlight /\ MatchingIds(Tried, request.pathInfo) = {1, 2}
  /\ called = <<RequestCall([request EXCEPT !.route = called[1].route], HandlerOf(hit))>>
  /\ hit \in {1, 2}

StoredRoute(id) == CHOOSE r \in StoredRoutes : r.id = id

\* C18: the Match Result is attached before delegation.  The app a match
\* selects is called with request.route already holding the Match Result of
\* the selecting route: its captures of request.pathInfo and its accessors,
\* not what the field held before the dispatch.
C18_AttachedBeforeCall ==
  (InFlight /\ hit # 0) =>
    /\ called[1].app = StoredRoute(hit).app
    /\ called[1].route =
         MatchResult(Exec(StoredRoute(hit).pattern, request.pathInfo),
                     StoredRoute(hit).accessors)
    /\ called[1].route # NoRouteData /\ called[1].route # OuterRouteData

\* C18 witness: the request came with a route field left by an enclosing
\* router, the first route tried did not match, and the second route's app
\* saw the second route's captures.
C18_Witness ==
  /\ InFlight /\ op = Op("dispatch", OuterRouteData)
  /\ hit = 2 /\ 1 \in Ids(Tried) /\ ~PatternMatches(1, request.pathInfo)
  /\ JsAt(called[1].route.arr, 0) = request.pathInfo

IsPrefix(s, t) == Len(s) <= Len(t) /\ SubSeq(t, 1, Len(s)) = s

\* C19: a pre-compiled matcher is passed through unchanged.  The route stored
\* for a RegExp holds that RegExp and no accessors; the Match Result of such
\* a route is the array exec gives for the RegExp as registered (index 0 the
\* whole match, then the positional captures) with no named property.
C19_RegExpPassedThrough ==
  /\ \A r \in StoredRoutes :
       regLog[r.id].pattern.type = "regexp" =>
         r.pattern = regLog[r.id].pattern /\ r.accessors = EmptyObject
  /\ (InFlight /\ hit # 0 /\ regLog[hit].pattern.type = "regexp") =>
       /\ DOMAIN called[1].route.accessors = {}
       /\ called[1].route.arr = Exec(regLog[hit].pattern, request.pathInfo)
       /\ IsPrefix(JsAt(called[1].route.arr, 0), request.pathInfo)

\* C19 witness: /^\/users\/([^\/]+)/ matched /users/42/edit: whole match
\* /users/42, capture 42, no names.
C19_Witness ==
  /\ InFlight /\ hit # 0 /\ regLog[hit].pattern = R_Users
  /\ request.pathInfo = P_Edit
  /\ request.route = MatchResult(<<P_42, <<"42">> >>, EmptyObject)

\* C20: a match-miss does not touch request.route.  When no route matches,
\* the default app is called with request.route as it was before the
\* dispatch (absent, or what an enclosing router left) and the field is the
\* same after; it differs from its value before only on a match.
C20_MissKeepsRoute ==
  (InFlight /\ op.name = "dispatch") =>
    /\ hit = 0 => request.route = op.arg /\ called[1].route = op.arg
    /\ request.route # op.arg => hit # 0

\* C20 witness: routes were tried, none matched, and the Match Result of the
\* enclosing router is still in request.route.
C20_Witness ==
  /\ InFlight /\ op = Op("dispatch", OuterRouteData) /\ hit = 0
  /\ Len(Tried) > 0 /\ request.route = OuterRouteData

\* The Match Result request i holds: its array and its names.
RouteOf(i) ==
  IF inflight[i].hit = 0 THEN NoRouteData
  ELSE MatchResult(heap[inflight[i].addr], inflight[i].accessors)

\* C16: per-request isolation of the Match Result.  Requests whose handling
\* is interleaved, also those matching the same route, each hold a capture
\* array of their own, created by their dispatch with the captures of their
\* own path; a write through a name or an index on one request's Match
\* Result, and the dispatch of a further request, leave the Match Result of
\* every other request and the routes' accessors as they were.
C16_MatchResultIsolated ==
  [][ /\ \A i, j \in 1..Len(inflight') :
           (i # j /\ inflight'[i].hit # 0 /\ inflight'[j].hit # 0) =>
             inflight'[i].addr # inflight'[j].addr
      /\ Len(inflight') = Len(inflight) + 1 =>
           /\ \A j \in 1..Len(inflight) : RouteOf(j)' = RouteOf(j)
           /\ \A n \in {Len(inflight) + 1} :
                inflight'[n].hit # 0 =>
                  RouteOf(n)' = MatchResult(Exec(StoredRoute(inflight'[n].hit).pattern,
                                                 inflight'[n].pathInfo),
                                            StoredRoute(inflight'[n].hit).accessors)
      /\ (op'.name = "write" /\ heap' # heap) =>
           /\ \A j \in 1..Len(inflight) \ {op'.arg} : RouteOf(j)' = RouteOf(j)
           /\ routes' = routes
    ]_vars

\* C16 witness: two requests for /users/42 matched the same route; the first
\* one's handler wrote through the name, the second still reads the capture.
C16_Witness ==
  /\ Len(inflight) = 2 /\ inflight[1].hit # 0 /\ inflight[1].hit = inflight[2].hit
  /\ regLog[inflight[1].hit].pattern = StringPattern(T_Id)
  /\ GetNamed(RouteOf(1), "id") = <<"7">>
  /\ GetNamed(RouteOf(2), "id") = <<"42">>

====
